---- MODULE Spec2Model ----
(***************************************************************************)
(* Model of src/src/triage.py: the deterministic incident triage function  *)
(* triage_incident and the helpers it composes.  A text is a sequence of   *)
(* one-character strings, so that strip(), lower() and the substring test  *)
(* `k in t` are computed character by character as Python computes them.   *)
(* Python values whose dynamic type decides behaviour (the result of       *)
(* _contains_any, which len() is applied to) carry their type tag.         *)
(***************************************************************************)
EXTENDS Integers, Sequences, FiniteSets, TLC

VARIABLES arg, raised, ticket, trace, earlier, clock, hashseed

vars == <<arg, raised, ticket, trace, earlier, clock, hashseed>>

(* ----------------------------- bounds ---------------------------------- *)
MaxWords == 2
MaxClock == 1

(* ------------------------- Python values ------------------------------- *)
PyBool(b) == [ty |-> "bool", b |-> b, l |-> <<>>]
PyList(s) == [ty |-> "list", b |-> FALSE, l |-> s]
PyNone == [ty |-> "None", b |-> FALSE, l |-> <<>>]

\* bool(v): the truth value `if v:` and `not v` test
Truthy(v) == IF v.ty = "bool" THEN v.b ELSE IF v.ty = "list" THEN v.l # <<>> ELSE FALSE

\* len(v) is defined for lists only; len(True) raises TypeError
HasLen(v) == v.ty = "list"
PyLen(v) == Len(v.l)

(* ------------------------------ text ----------------------------------- *)
Whitespace == {" ", "\n", "\t"}

UpperToLower ==
    ("A" :> "a") @@ ("B" :> "b") @@ ("C" :> "c") @@ ("D" :> "d") @@ ("E" :> "e") @@
    ("F" :> "f") @@ ("G" :> "g") @@ ("H" :> "h") @@ ("I" :> "i") @@ ("J" :> "j") @@
    ("K" :> "k") @@ ("L" :> "l") @@ ("M" :> "m") @@ ("N" :> "n") @@ ("O" :> "o") @@
    ("P" :> "p") @@ ("Q" :> "q") @@ ("R" :> "r") @@ ("S" :> "s") @@ ("T" :> "t") @@
    ("U" :> "u") @@ ("V" :> "v") @@ ("W" :> "w") @@ ("X" :> "x") @@ ("Y" :> "y") @@
    ("Z" :> "z")

\* str.lower()
Lower(s) == [i \in 1..Len(s) |-> IF s[i] \in DOMAIN UpperToLower THEN UpperToLower[s[i]] ELSE s[i]]

\* str.upper(), used to build inputs only
Upper(s) ==
    [i \in 1..Len(s) |->
        IF \E u \in DOMAIN UpperToLower : UpperToLower[u] = s[i]
        THEN CHOOSE u \in DOMAIN UpperToLower : UpperToLower[u] = s[i]
        ELSE s[i]]

\* str.strip(): drop leading and trailing whitespace
Strip(s) ==
    LET keep == {i \in 1..Len(s) : s[i] \notin Whitespace}
    IN  IF keep = {} THEN <<>>
        ELSE LET lo == CHOOSE i \in keep : \A j \in keep : i <= j
                 hi == CHOOSE i \in keep : \A j \in keep : i >= j
             IN  SubSeq(s, lo, hi)

\* k in t, for strings: k occurs as a contiguous substring of t
Contains(t, k) == \E i \in 0..(Len(t) - Len(k)) : SubSeq(t, i + 1, i + Len(k)) = k

\* [x for x in s if P(x)]
RECURSIVE Matching(_, _)
Matching(t, keywords) ==
    IF keywords = <<>> THEN <<>>
    ELSE (IF Contains(t, Head(keywords)) THEN <<Head(keywords)>> ELSE <<>>)
         \o Matching(t, Tail(keywords))

\* raw.splitlines()[0][:80]
TitleMax == 80
FirstLine(s) ==
    LET nl == {i \in 1..Len(s) : s[i] = "\n"}
        cut == IF nl = {} THEN Len(s) ELSE (CHOOSE i \in nl : \A j \in nl : i <= j) - 1
    IN  SubSeq(s, 1, IF cut > TitleMax THEN TitleMax ELSE cut)

(* ---------------------------- enumerations ----------------------------- *)
Category == {"IT Ops", "Customer Support", "Operations", "Engineering", "General Ops"}
Urgency == {"High", "Medium", "Low", "Unknown"}

(* --------------------------- static tables ----------------------------- *)
CATEGORY_RULES == <<
    [cat |-> "IT Ops",
     keywords |-> << <<"l", "o", "g", "i", "n">>, <<"a", "u", "t", "h">>, <<"a", "u", "t", "h", "e", "n", "t", "i", "c", "a", "t", "i", "o", "n">>, <<"s", "s", "o">>, <<"p", "a", "s", "s", "w", "o", "r", "d">>,
                     <<"t", "o", "k", "e", "n">>, <<"v", "p", "n">>, <<"d", "n", "s">> >>,
     suspected |-> <<"Authentication">>],
    [cat |-> "Customer Support",
     keywords |-> << <<"p", "a", "y", "m", "e", "n", "t">>, <<"c", "h", "e", "c", "k", "o", "u", "t">>, <<"r", "e", "f", "u", "n", "d">>, <<"c", "h", "a", "r", "g", "e">>, <<"b", "i", "l", "l", "i", "n", "g">>,
                     <<"i", "n", "v", "o", "i", "c", "e">> >>,
     suspected |-> <<"Payments/Billing">>],
    [cat |-> "Operations",
     keywords |-> << <<"s", "h", "i", "p", "m", "e", "n", "t">>, <<"d", "e", "l", "i", "v", "e", "r", "y">>, <<"w", "a", "r", "e", "h", "o", "u", "s", "e">>, <<"r", "o", "u", "t", "e">>, <<"f", "l", "e", "e", "t">>,
                     <<"d", "i", "s", "p", "a", "t", "c", "h">> >>,
     suspected |-> <<"Logistics">>],
    [cat |-> "Engineering",
     keywords |-> << <<"b", "u", "i", "l", "d", " ", "f", "a", "i", "l", "e", "d">>, <<"c", "i">>, <<"p", "i", "p", "e", "l", "i", "n", "e">>, <<"d", "e", "p", "l", "o", "y">>, <<"r", "e", "l", "e", "a", "s", "e">>,
                     <<"b", "u", "g">>, <<"r", "o", "l", "l", "b", "a", "c", "k">> >>,
     suspected |-> <<"CI/CD">>] >>

URGENCY_HIGH == << <<"o", "u", "t", "a", "g", "e">>, <<"d", "o", "w", "n">>, <<"u", "n", "a", "b", "l", "e">>, <<"c", "a", "n", "n", "o", "t">>, <<"c", "a", "n", "'", "t">>, <<"s", "e", "v", "1">>,
                   <<"c", "r", "i", "t", "i", "c", "a", "l">>, <<"p", "0">>, <<"b", "l", "o", "c", "k", "e", "r">> >>
URGENCY_MED == << <<"s", "l", "o", "w">>, <<"i", "n", "t", "e", "r", "m", "i", "t", "t", "e", "n", "t">>, <<"s", "o", "m", "e", "t", "i", "m", "e", "s">>, <<"d", "e", "g", "r", "a", "d", "e", "d">>, <<"l", "a", "t", "e", "n", "c", "y">>,
                  <<"f", "l", "a", "k", "y">> >>

IMPACT_BROAD == << <<"m", "u", "l", "t", "i", "p", "l", "e", " ", "t", "e", "a", "m", "s">>, <<"a", "l", "l", " ", "u", "s", "e", "r", "s">>, <<"e", "v", "e", "r", "y", "o", "n", "e">>, <<"c", "o", "m", "p", "a", "n", "y", "-", "w", "i", "d", "e">>,
                   <<"e", "n", "t", "i", "r", "e", " ", "o", "r", "g">> >>
IMPACT_CUSTOMER == << <<"c", "u", "s", "t", "o", "m", "e", "r">>, <<"c", "u", "s", "t", "o", "m", "e", "r", "s">>, <<"c", "l", "i", "e", "n", "t", "s">>, <<"b", "u", "y", "e", "r", "s">>,
                      <<"u", "s", "e", "r", "s", " ", "a", "f", "f", "e", "c", "t", "e", "d">> >>

ACTION_PLAYBOOK ==
    [c \in Category |->
        CASE c = "IT Ops" ->
               << "Check service health dashboards and recent changes/deploys",
                  "Collect an error message/code and a timestamp of a failing attempt",
                  "Identify affected scope (which users/teams, which region, which environment)" >>
          [] c = "Customer Support" ->
               << "Confirm scope (which customers, region, account tier) and collect examples",
                  "Collect IDs (order/transaction/customer) and timestamps for failures",
                  "Check third-party provider status pages if applicable" >>
          [] c = "Operations" ->
               << "Confirm affected locations/routes and time window",
                  "Collect relevant IDs (shipment/order/vehicle) and current status",
                  "Check upstream dependencies (vendors, inventory, dispatch systems)" >>
          [] c = "Engineering" ->
               << "Identify failing step and capture logs/error output",
                  "Check recent changes (PRs, releases) and rollback options",
                  "Confirm environment (prod/stage), version, and reproduction steps" >>
          [] OTHER ->
               << "Clarify the goal and success criteria",
                  "Identify owner/team responsible",
                  "Collect relevant IDs, timestamps, and any error details" >>]

QUESTION_EVIDENCE == <<
    [evidence |-> << <<"s", "t", "a", "r", "t", "e", "d">>, <<"s", "i", "n", "c", "e">>, <<"m", "i", "n", "u", "t", "e", "s">>, <<"h", "o", "u", "r", "s">>, <<"t", "o", "d", "a", "y">>, <<"y", "e", "s", "t", "e", "r", "d", "a", "y">>,
                     <<"t", "i", "m", "e", "s", "t", "a", "m", "p">>, <<"a", "m">>, <<"p", "m">> >>,
     question |-> "When did this start (approx. time and timezone)?"],
    [evidence |-> << <<"e", "r", "r", "o", "r">>, <<"m", "e", "s", "s", "a", "g", "e">>, <<"c", "o", "d", "e">>, <<"s", "c", "r", "e", "e", "n", "s", "h", "o", "t">>, <<"l", "o", "g">>, <<"s", "t", "a", "c", "k", "t", "r", "a", "c", "e">>,
                     <<"t", "r", "a", "c", "e">> >>,
     question |-> "Do you have an error message, code, or log snippet?"],
    [evidence |-> << <<"a", "f", "f", "e", "c", "t", "s">>, <<"i", "m", "p", "a", "c", "t">>, <<"u", "s", "e", "r", "s">>, <<"t", "e", "a", "m", "s">>, <<"c", "u", "s", "t", "o", "m", "e", "r", "s">>, <<"e", "v", "e", "r", "y", "o", "n", "e">>,
                     <<"a", "l", "l", " ", "u", "s", "e", "r", "s">> >>,
     question |-> "Who is affected (team/customers/how many users)?"],
    [evidence |-> << <<"p", "r", "o", "d">>, <<"p", "r", "o", "d", "u", "c", "t", "i", "o", "n">>, <<"s", "t", "a", "g", "i", "n", "g">>, <<"d", "e", "v">>, <<"t", "e", "s", "t", " ", "e", "n", "v", "i", "r", "o", "n", "m", "e", "n", "t">> >>,
     question |-> "Which environment is affected (prod/staging/dev)?"] >>

(* ------------------------------ helpers -------------------------------- *)
\* _normalize without the strip(): whitespace is kept
_normalize_unstripped(a) == IF a.none \/ a.s = <<>> THEN <<>> ELSE a.s

\* (text or "").strip(); a missing text (None) and "" are both falsy
_normalize(a) == Strip(IF a.none \/ a.s = <<>> THEN <<>> ELSE a.s)

\* any(k for k in keywords if k in t): the generator yields the keywords
\* that occur in the lower-cased text and any() reduces them to one bool
_contains_any(text, keywords) ==
    LET t == Lower(text)
    IN  PyBool(\E i \in DOMAIN Matching(t, keywords) : Matching(t, keywords)[i] # <<>>)

\* datetime.now(timezone.utc).isoformat(): the reading of the wall clock
_utc_now_iso(now) == now

\* hash(text): the built-in string hash, a fixed function of the text and the
\* per-process hash seed, signed; a 20-bit stand-in for the 64-bit SipHash
Charset == <<"a", "b", "c", "d", "e", "f", "g", "h", "i", "j", "k", "l", "m", "n", "o", "p", "q", "r", "s", "t", "u", "v", "w", "x", "y", "z", "A", "B", "C", "D", "E", "F", "G", "H", "I", "J", "K", "L", "M", "N", "O", "P", "Q", "R", "S", "T", "U", "V", "W", "X", "Y", "Z", "0", "1", "2", "3", "4", "5", "6", "7", "8", "9", " ", "'", "-", "/">> \o <<"\n", "\t">>
HashMod == 1048576
Ord(c) == IF \E i \in DOMAIN Charset : Charset[i] = c
          THEN CHOOSE i \in DOMAIN Charset : Charset[i] = c
          ELSE 0
RECURSIVE HashFrom(_, _)
HashFrom(h, s) ==
    IF s = <<>> THEN h ELSE HashFrom((h * 31 + Ord(Head(s))) % HashMod, Tail(s))
PyHash(seed, s) == HashFrom(seed, s) - (HashMod \div 2)

Abs(n) == IF n < 0 THEN 0 - n ELSE n

\* f"{base:08d}": decimal digits, zero-padded to the width
RECURSIVE Digits(_, _)
Digits(n, width) == IF width = 0 THEN <<>> ELSE Digits(n \div 10, width - 1) \o <<n % 10>>

IdModulus == 100000000
IdWidth == 8
_simple_ticket_id(seed, text) ==
    LET base == Abs(PyHash(seed, text)) % IdModulus
    IN  [prefix |-> "INC-", digits |-> Digits(base, IdWidth)]

Sentence(msg, v) == [msg |-> msg, arg |-> v]

\* one iteration of the loop over CATEGORY_RULES
CategoryStep(st, rule, raw) ==
    IF st.exc # "" THEN st
    ELSE LET matches == _contains_any(raw, rule.keywords)
         IN  IF ~HasLen(matches) \/ ~HasLen(st.best_matches)
             THEN [st EXCEPT !.exc = "TypeError"]
             ELSE IF PyLen(matches) > PyLen(st.best_matches)
                  THEN [st EXCEPT !.best_category = rule.cat,
                                  !.best_matches = matches,
                                  !.best_suspected = rule.suspected,
                                  !.alias = "CATEGORY_RULES"]
                  ELSE st

RECURSIVE CategoryLoop(_, _, _)
CategoryLoop(st, rules, raw) ==
    IF rules = <<>> THEN st
    ELSE CategoryLoop(CategoryStep(st, Head(rules), raw), Tail(rules), raw)

_classify_category(raw) ==
    LET st == CategoryLoop([exc |-> "", best_category |-> "General Ops",
                            best_matches |-> PyList(<<>>), best_suspected |-> <<>>,
                            alias |-> "fresh"],
                           CATEGORY_RULES, raw)
        n == PyLen(st.best_matches)
        conf == IF n >= 3 THEN 85 ELSE IF n = 2 THEN 70 ELSE IF n = 1 THEN 55 ELSE 40
        reasoning ==
            IF st.best_category = "General Ops"
            THEN <<Sentence("No strong category keywords matched; defaulted to General Ops.", PyNone)>>
            ELSE <<Sentence("Category inferred from keywords: {best_matches}.", st.best_matches)>>
    IN  IF st.exc # ""
        THEN [exc |-> st.exc]
        ELSE [exc |-> "", category |-> st.best_category, matches |-> st.best_matches,
              suspected |-> st.best_suspected, alias |-> st.alias, conf |-> conf,
              reasoning |-> reasoning]

_classify_urgency(raw) ==
    LET matched_high == _contains_any(raw, URGENCY_HIGH)
        matched_med == _contains_any(raw, URGENCY_MED)
    IN  IF Truthy(matched_high)
        THEN [urgency |-> "High", matches |-> matched_high, conf |-> 80,
              reasoning |-> <<Sentence("Urgency set to High due to indicators: {matched_high}.", matched_high)>>]
        ELSE IF Truthy(matched_med)
        THEN [urgency |-> "Medium", matches |-> matched_med, conf |-> 65,
              reasoning |-> <<Sentence("Urgency set to Medium due to indicators: {matched_med}.", matched_med)>>]
        ELSE [urgency |-> "Low", matches |-> PyList(<<>>), conf |-> 55,
              reasoning |-> <<Sentence("No urgency indicators found; set to Low.", PyNone)>>]

UnknownImpact == "Unknown/unclear impact"

_infer_impact(raw) ==
    LET broad == _contains_any(raw, IMPACT_BROAD)
        customer == _contains_any(raw, IMPACT_CUSTOMER)
    IN  IF Truthy(broad)
        THEN [impact |-> "Broad impact (many users/teams)", matches |-> broad,
              reasoning |-> <<Sentence("Impact inferred as broad due to keywords.", PyNone)>>]
        ELSE IF Truthy(customer)
        THEN [impact |-> "Customer-facing impact", matches |-> customer,
              reasoning |-> <<Sentence("Impact inferred as customer-facing due to keywords.", PyNone)>>]
        ELSE [impact |-> UnknownImpact, matches |-> PyList(<<>>),
              reasoning |-> <<Sentence("Impact not clearly specified; left as unknown.", PyNone)>>]

RECURSIVE QuestionsFrom(_, _)
QuestionsFrom(raw, table) ==
    IF table = <<>> THEN <<>>
    ELSE (IF ~Truthy(_contains_any(raw, Head(table).evidence))
          THEN <<Head(table).question>> ELSE <<>>)
         \o QuestionsFrom(raw, Tail(table))

_missing_info_questions(raw) == QuestionsFrom(raw, QUESTION_EVIDENCE)

\* confidences are kept in hundredths, the weighted sum in ten-thousandths
ImpactConf(impact) == IF impact # UnknownImpact THEN 75 ELSE 45
WeightedSum(cat_conf, urg_conf, imp_conf) == 55 * cat_conf + 35 * urg_conf + 10 * imp_conf

\* round(x, 2) of the double the expression evaluates to.  Where the exact
\* sum lies halfway between two hundredths the double is slightly above or
\* below it; these are the operand triples whose double rounds upward
\* (0.7350000000000001, 0.7050000000000001, 0.5750000000000001, 0.545 as
\* 0.54500000000000004), the other two halfway sums (0.605, 0.575) round down.
TieRoundsUp == {<<85, 55, 75>>, <<85, 55, 45>>, <<55, 65, 45>>, <<40, 80, 45>>}
Round2(cat_conf, urg_conf, imp_conf) ==
    LET x == WeightedSum(cat_conf, urg_conf, imp_conf)
        q == x \div 100
        r == x % 100
    IN  IF r < 50 THEN q
        ELSE IF r > 50 THEN q + 1
        ELSE IF <<cat_conf, urg_conf, imp_conf>> \in TieRoundsUp THEN q + 1 ELSE q

\* the three human-review tests, in program order
ReviewChecks(category, urgency, confidence, raw, questions) ==
    << [fires |-> category = "General Ops" /\ confidence < 55,
        line |-> Sentence("Low confidence category; recommend human review.", PyNone)],
       [fires |-> urgency = "High" /\ ~Contains(Lower(raw), <<"e", "r", "r", "o", "r">>)
                                   /\ ~Contains(Lower(raw), <<"l", "o", "g">>),
        line |-> Sentence("High urgency without supporting error/log details; recommend human review.", PyNone)],
       [fires |-> Len(questions) >= 3,
        line |-> Sentence("Multiple missing critical fields; recommend collecting info before actioning.", PyNone)] >>

RECURSIVE ReviewLines(_)
ReviewLines(checks) ==
    IF checks = <<>> THEN <<>>
    ELSE (IF Head(checks).fires THEN <<Head(checks).line>> ELSE <<>>) \o ReviewLines(Tail(checks))

RecommendedRunbooks(category, suspected) ==
    IF category = "IT Ops" /\ \E i \in DOMAIN suspected : suspected[i] = "Authentication"
    THEN <<"RBK-IT-AUTH-001", "RBK-IT-SSO-002">>
    ELSE IF category = "Customer Support" THEN <<"RBK-CS-PAYMENTS-010">>
    ELSE IF category = "Engineering" THEN <<"RBK-ENG-CICD-101">>
    ELSE IF category = "Operations" THEN <<"RBK-OPS-LOGISTICS-050">>
    ELSE <<>>

\* dataclasses.asdict: every list and dict of the dataclass is copied, so the
\* returned dict shares no list with the static tables
asdict(t) == [t EXCEPT !.shares = {}]

\* the IncidentTicket built from a raw text whose category was classified
IncidentTicket(raw, cc, now, seed) ==
    LET urg == _classify_urgency(raw)
        imp == _infer_impact(raw)
        questions == _missing_info_questions(raw)
        confidence == Round2(cc.conf, urg.conf, ImpactConf(imp.impact))
        checks == ReviewChecks(cc.category, urg.urgency, confidence, raw, questions)
        matched_keywords ==
            [k \in {"category", "urgency"} \cup (IF Truthy(imp.matches) THEN {"impact"} ELSE {}) |->
                IF k = "category" THEN cc.matches
                ELSE IF k = "urgency" THEN urg.matches
                ELSE imp.matches]
    IN  [ticket_id |-> _simple_ticket_id(seed, raw),
         created_at_utc |-> _utc_now_iso(now),
         title |-> FirstLine(raw),
         description |-> raw,
         category |-> cc.category,
         urgency |-> urg.urgency,
         impact |-> imp.impact,
         suspected_systems |-> cc.suspected,
         matched_keywords |-> matched_keywords,
         reasoning |-> cc.reasoning \o urg.reasoning \o imp.reasoning \o ReviewLines(checks),
         confidence |-> confidence,
         needs_human_review |-> \E i \in DOMAIN checks : checks[i].fires,
         missing_info_questions |-> questions,
         next_actions |-> ACTION_PLAYBOOK[cc.category],
         recommended_runbooks |-> RecommendedRunbooks(cc.category, cc.suspected),
         citations |-> <<>>,
         shares |-> IF cc.alias = "CATEGORY_RULES" THEN {"CATEGORY_RULES"} ELSE {}]

\* the outcome of triage_incident(text): the exception raised, if any, the
\* record returned, if any, and the helpers entered on the way
Outcome(a, now, seed) ==
    LET raw == _normalize(a)
    IN  IF raw = <<>>
        THEN [raised |-> "ValueError", ticket |-> <<>>, trace |-> <<"_normalize">>]
        ELSE LET cc == _classify_category(raw)
             IN  IF cc.exc # ""
                 THEN [raised |-> cc.exc, ticket |-> <<>>,
                       trace |-> <<"_normalize", "_classify_category">>]
                 ELSE [raised |-> "",
                       ticket |-> <<asdict(IncidentTicket(raw, cc, now, seed))>>,
                       trace |-> <<"_normalize", "_classify_category", "_classify_urgency",
                                   "_infer_impact", "_missing_info_questions">>]

(* ------------------------------ inputs --------------------------------- *)
Words == << <<"l", "o", "g", "i", "n">>, <<"b", "i", "l", "l", "i", "n", "g">>, <<"o", "u", "t", "a", "g", "e">>, <<"s", "l", "o", "w">>, <<"e", "v", "e", "r", "y", "o", "n", "e">>, <<"h", "e", "l", "l", "o">> >>

RECURSIVE Join(_)
Join(ws) ==
    IF ws = <<>> THEN <<>>
    ELSE IF Len(ws) = 1 THEN Words[ws[1]]
    ELSE Words[ws[1]] \o <<" ">> \o Join(Tail(ws))

Phrases == {Join(ws) : ws \in UNION {[1..n -> DOMAIN Words] : n \in 1..MaxWords}}

Str(s) == [none |-> FALSE, s |-> s]
None == [none |-> TRUE, s |-> <<>>]

Inputs ==
    {None, Str(<<>>), Str(<<" ", " ", " ">>), Str(<<"\n", "\t", " ">>)}
    \cup {Str(p) : p \in Phrases}
    \cup {Str(Upper(Words[i])) : i \in DOMAIN Words}
    \cup {Str(<<" ">> \o Words[i] \o <<"\n">>) : i \in DOMAIN Words}

HashSeeds == {0, 1}

\* triage_incident is a function of its argument, the clock reading and the
\* hash seed; its outcomes over the bounded inputs, tabulated once
OutcomeOf ==
    [a \in Inputs, now \in 0..MaxClock, seed \in HashSeeds |-> Outcome(a, now, seed)]

(* --------------------------- state machine ----------------------------- *)
Init ==
    /\ arg = None
    /\ raised = ""
    /\ ticket = <<>>
    /\ trace = <<>>
    /\ earlier = <<>>
    /\ clock = 0
    /\ hashseed \in HashSeeds

\* a caller invokes triage_incident(a); `earlier` keeps the outcome of the
\* preceding call when that call had the same argument
triage_incident(a) ==
    LET r == OutcomeOf[a, clock, hashseed]
    IN  /\ arg' = a
        /\ raised' = r.raised
        /\ ticket' = r.ticket
        /\ trace' = r.trace
        /\ earlier' = IF trace # <<>> /\ a = arg
                      THEN <<[raised |-> raised, ticket |-> ticket]>>
                      ELSE <<>>
        /\ UNCHANGED <<clock, hashseed>>

\* the wall clock advances between calls
Tick ==
    /\ clock < MaxClock
    /\ clock' = clock + 1
    /\ UNCHANGED <<arg, raised, ticket, trace, earlier, hashseed>>

Next == (\E a \in Inputs : triage_incident(a)) \/ Tick

Spec == Init /\ [][Next]_vars

TypeOK ==
    /\ arg \in Inputs
    /\ raised \in {"", "ValueError", "TypeError"}
    /\ Len(ticket) <= 1
    /\ clock \in 0..MaxClock

(* ------------------------ vocabulary of the claims --------------------- *)
\* a call of triage_incident has completed
Called == trace # <<>>

\* the argument has a character that is not whitespace
NonBlank(a) == ~a.none /\ \E i \in DOMAIN a.s : a.s[i] \notin Whitespace

\* the last call returned a record
Returned == raised = "" /\ Len(ticket) = 1

\* the keywords of a list that occur in the text, ignoring case
Occurring(s, kws) == {i \in DOMAIN kws : Contains(Lower(s), kws[i])}
OccurringList(s, kws) == Matching(Lower(s), kws)

\* the rule the category claim selects: most keywords, earliest on ties
BestCount(s) ==
    LET counts == {Cardinality(Occurring(s, CATEGORY_RULES[i].keywords)) : i \in DOMAIN CATEGORY_RULES}
    IN  CHOOSE n \in counts : \A m \in counts : m <= n
BestRule(s) ==
    LET best == {i \in DOMAIN CATEGORY_RULES :
                    Cardinality(Occurring(s, CATEGORY_RULES[i].keywords)) = BestCount(s)}
    IN  CHOOSE i \in best : \A j \in best : i <= j

\* the three human-review conditions, read off a returned record
ReviewA(t) == t.category = "General Ops" /\ t.confidence < 55
ReviewB(t, s) == t.urgency = "High" /\ Occurring(s, << <<"e", "r", "r", "o", "r">>, <<"l", "o", "g">> >>) = {}
ReviewC(t) == Len(t.missing_info_questions) >= 3

(* ------------------------------- claims -------------------------------- *)
\* C1: for every input whose trimmed form is non-empty, triage_incident
\* raises nothing and returns a record with category among the five values,
\* urgency among High/Medium/Low, confidence in [0,1] and non-empty
\* next_actions.
C1_NeverFailsOnNonEmpty ==
    (Called /\ NonBlank(arg)) =>
        /\ Returned
        /\ ticket[1].category \in Category
        /\ ticket[1].urgency \in {"High", "Medium", "Low"}
        /\ ticket[1].confidence \in 0..100
        /\ ticket[1].next_actions # <<>>

\* C2: for every input that is missing, empty or only whitespace,
\* triage_incident raises ValueError, returns no record, and raises it
\* before any classifier is entered.
C2_BlankRaisesValueError ==
    (Called /\ ~NonBlank(arg)) =>
        /\ raised = "ValueError"
        /\ ticket = <<>>
        /\ trace = <<"_normalize">>

C2_Witness ==
    /\ Called
    /\ arg = Str(<<" ", " ", " ">>)
    /\ raised = "ValueError"

\* C3: for every non-empty text, the returned urgency is High (urgency
\* confidence 0.80) when a high indicator occurs, whatever medium indicators
\* occur; Medium (0.65) when none does and a medium indicator occurs; Low
\* (0.55) when neither set matches.
C3_UrgencyByIndicators ==
    (Called /\ NonBlank(arg)) =>
        LET high == Occurring(arg.s, URGENCY_HIGH) # {}
            med == Occurring(arg.s, URGENCY_MED) # {}
            u == _classify_urgency(Strip(arg.s))
        IN  /\ Returned
            /\ ticket[1].urgency = (IF high THEN "High" ELSE IF med THEN "Medium" ELSE "Low")
            /\ u.urgency = ticket[1].urgency
            /\ u.conf = (IF high THEN 80 ELSE IF med THEN 65 ELSE 55)

\* C4: for every non-empty text, the category is that of the rule with the
\* most keywords occurring in the text, the earliest rule winning ties, with
\* that rule's systems list; when no keyword of any rule occurs it is
\* General Ops with no suspected systems and an empty category match list.
C4_CategoryByMostKeywords ==
    (Called /\ NonBlank(arg)) =>
        /\ Returned
        /\ IF BestCount(arg.s) = 0
           THEN /\ ticket[1].category = "General Ops"
                /\ ticket[1].suspected_systems = <<>>
                /\ ticket[1].matched_keywords["category"] = PyList(<<>>)
           ELSE /\ ticket[1].category = CATEGORY_RULES[BestRule(arg.s)].cat
                /\ ticket[1].suspected_systems = CATEGORY_RULES[BestRule(arg.s)].suspected

\* C5: in the record returned for a non-empty text, needs_human_review is
\* true exactly when the record is a General Ops one with confidence < 0.55,
\* or urgency is High and the text has neither "error" nor "log", or three or
\* more missing-info questions were generated.
C5_ReviewExactlyWhenConditionFires ==
    (Called /\ NonBlank(arg)) =>
        /\ Returned
        /\ ticket[1].needs_human_review <=>
              (ReviewA(ticket[1]) \/ ReviewB(ticket[1], arg.s) \/ ReviewC(ticket[1]))

\* C6: two calls with the same non-empty text return records that agree on
\* category, urgency, impact, confidence, next_actions,
\* missing_info_questions and ticket_id.
C6_SameTextSameRecord ==
    (Called /\ NonBlank(arg) /\ earlier # <<>>) =>
        /\ Returned
        /\ Len(earlier[1].ticket) = 1
        /\ LET a == earlier[1].ticket[1]
               b == ticket[1]
           IN  /\ a.category = b.category
               /\ a.urgency = b.urgency
               /\ a.impact = b.impact
               /\ a.confidence = b.confidence
               /\ a.next_actions = b.next_actions
               /\ a.missing_info_questions = b.missing_info_questions
               /\ a.ticket_id = b.ticket_id

\* C7: every call for a non-empty text, however many calls came before it,
\* returns the original playbook steps and systems list of its category, and
\* no list of the returned record is a list of a static table.
C7_PlaybookIntactAndUnshared ==
    (Called /\ NonBlank(arg)) =>
        /\ Returned
        /\ ticket[1].next_actions = ACTION_PLAYBOOK[ticket[1].category]
        /\ \A i \in DOMAIN CATEGORY_RULES :
              CATEGORY_RULES[i].cat = ticket[1].category =>
                  ticket[1].suspected_systems = CATEGORY_RULES[i].suspected
        /\ ticket[1].shares = {}

\* C8: in the record returned for a non-empty text, confidence is
\* round(0.55*cc + 0.35*uc + 0.10*ic, 2) with cc 0.85/0.70/0.55/0.40 for
\* >=3/2/1/0 matched category keywords, uc 0.80/0.65/0.55 for
\* High/Medium/Low and ic 0.75 unless impact is unknown, then 0.45; so a
\* General Ops record has confidence <= 0.6.
C8_ConfidenceFormula ==
    (Called /\ NonBlank(arg)) =>
        /\ Returned
        /\ LET n == BestCount(arg.s)
               cc == IF n >= 3 THEN 85 ELSE IF n = 2 THEN 70 ELSE IF n = 1 THEN 55 ELSE 40
               uc == IF ticket[1].urgency = "High" THEN 80
                     ELSE IF ticket[1].urgency = "Medium" THEN 65 ELSE 55
               ic == IF ticket[1].impact # "Unknown/unclear impact" THEN 75 ELSE 45
           IN  /\ ticket[1].confidence = Round2(cc, uc, ic)
               /\ ticket[1].category = "General Ops" => ticket[1].confidence <= 60

\* C9: in the record returned for a non-empty text, reasoning is one
\* category sentence, one urgency sentence, one impact sentence, then one
\* sentence for each human-review condition that fired, in the order
\* low-confidence General Ops, High urgency without error/log, 3+ questions.
C9_ReasoningOrder ==
    (Called /\ NonBlank(arg)) =>
        /\ Returned
        /\ LET r == ticket[1].reasoning
               fired == (IF ReviewA(ticket[1])
                         THEN <<"Low confidence category; recommend human review.">> ELSE <<>>)
                     \o (IF ReviewB(ticket[1], arg.s)
                         THEN <<"High urgency without supporting error/log details; recommend human review.">> ELSE <<>>)
                     \o (IF ReviewC(ticket[1])
                         THEN <<"Multiple missing critical fields; recommend collecting info before actioning.">> ELSE <<>>)
           IN  /\ Len(r) = 3 + Len(fired)
               /\ r[1].msg \in {"No strong category keywords matched; defaulted to General Ops.",
                                "Category inferred from keywords: {best_matches}."}
               /\ r[2].msg \in {"Urgency set to High due to indicators: {matched_high}.",
                                "Urgency set to Medium due to indicators: {matched_med}.",
                                "No urgency indicators found; set to Low."}
               /\ r[3].msg \in {"Impact inferred as broad due to keywords.",
                                "Impact inferred as customer-facing due to keywords.",
                                "Impact not clearly specified; left as unknown."}
               /\ \A i \in 1..Len(fired) : r[3 + i].msg = fired[i]

\* C10: in the record returned for a non-empty text, matched_keywords has the
\* keys "category" and "urgency", and "impact" exactly when impact is not
\* unknown; each value is the list of the literal keywords of the selected
\* rule or indicator set that occur in the text, and the number under
\* "category" is the match count behind the category confidence.
C10_MatchedKeywordLists ==
    (Called /\ NonBlank(arg)) =>
        /\ Returned
        /\ LET mk == ticket[1].matched_keywords
               known == ticket[1].impact # "Unknown/unclear impact"
           IN  /\ DOMAIN mk = {"category", "urgency"} \cup (IF known THEN {"impact"} ELSE {})
               /\ mk["category"] =
                     (IF BestCount(arg.s) = 0 THEN PyList(<<>>)
                      ELSE PyList(OccurringList(arg.s, CATEGORY_RULES[BestRule(arg.s)].keywords)))
               /\ Len(mk["category"].l) = BestCount(arg.s)
               /\ mk["urgency"] =
                     (IF ticket[1].urgency = "High" THEN PyList(OccurringList(arg.s, URGENCY_HIGH))
                      ELSE IF ticket[1].urgency = "Medium" THEN PyList(OccurringList(arg.s, URGENCY_MED))
                      ELSE PyList(<<>>))
               /\ known =>
                     mk["impact"] =
                       (IF ticket[1].impact = "Broad impact (many users/teams)"
                        THEN PyList(OccurringList(arg.s, IMPACT_BROAD))
                        ELSE PyList(OccurringList(arg.s, IMPACT_CUSTOMER)))
====
